---- MODULE Spec2Model ----
(***************************************************************************)
(* The Genius (Simon) game of App.tsx as a timed state machine.            *)
(*                                                                         *)
(* State is the React state of the App component plus the work the         *)
(* component leaves pending in the JavaScript event loop: the running      *)
(* playSequence() calls (each suspended on a setTimeout), the 1000 ms      *)
(* timers that call addNewToSequence, and the timers that clear the        *)
(* highlight of a pressed button.  Every pending timer carries the time    *)
(* that remains until it fires, in milliseconds; Tick lets time pass.      *)
(* A handler, the state updates it batches, the re-render and the effects  *)
(* that re-render runs are one atomic step.                                *)
(***************************************************************************)
EXTENDS Integers, Sequences, FiniteSets

VARIABLES
    sequence,        \* useState sequence
    playerSequence,  \* useState playerSequence
    currentScore,    \* useState currentScore
    highScore,       \* useState highScore
    gameState,       \* useState gameState
    activeButton,    \* useState activeButton ("none" models null)
    soundsLoaded,    \* loadSounds() has called setSoundObjects
    soundObjects,    \* keys of soundObjects that hold a loaded Audio.Sound
    playbacks,       \* running playSequence() calls, in creation order
    advances,        \* pending setTimeout(addNewToSequence, 1000), in creation order
    clears,          \* pending setTimeout(setActiveButton(null)), time left
    alertOpen,       \* a "Game Over!" alert with its "Try Again" button is shown
    alertCall,       \* arguments of Alert.alert made by the last step, or NoAlert
    soundCalls,      \* sound.replayAsync() calls made by the last step
    inputs,          \* number of inputs accepted since the initial state
    lastOp           \* the handler or timer callback the last step ran

vars == <<sequence, playerSequence, currentScore, highScore, gameState,
          activeButton, soundsLoaded, soundObjects, playbacks, advances,
          clears, alertOpen, alertCall, soundCalls, inputs, lastOp>>

game == <<sequence, playerSequence, currentScore, highScore, gameState>>

----------------------------------------------------------------------------
(* Constants of the program *)

COLORS == {"green", "red", "yellow", "blue"}

SoundKeys == COLORS \cup {"ERROR"}

(* The colours the model lets Math.random() draw and the player press: two *)
(* of the four, so that a press is either the expected colour or not.      *)
InputColors == {"green", "red"}

SEQUENCE_DELAY == 800

HIGHLIGHT_DURATION == 300

RoundAdvanceDelay == 1000

PressHighlight == HIGHLIGHT_DURATION \div 2

(* Mutant of GapDuration: the loop waits the whole SEQUENCE_DELAY after a   *)
(* highlight.                                                              *)
GapDurationWholeDelay == SEQUENCE_DELAY

GapDuration == SEQUENCE_DELAY - HIGHLIGHT_DURATION

GameStates == {"idle", "watching", "playing", "gameOver"}

NoAlert == [shown |-> FALSE, score |-> 0, high |-> 0]

(* Bound of the model: the number of inputs handlePlayerInput accepts in a *)
(* run.  It bounds the rounds completed, the games lost and so the games   *)
(* started, the length of the sequence and the timers that can be pending. *)
MaxInputs == 2

----------------------------------------------------------------------------
(* Time: all timer durations are multiples of Quantum. *)

RECURSIVE GCD(_, _)
GCD(a, b) == IF b = 0 THEN a ELSE GCD(b, a % b)

Quantum == GCD(GCD(PressHighlight, GapDuration), GCD(HIGHLIGHT_DURATION, RoundAdvanceDelay))

----------------------------------------------------------------------------
(* Helpers *)

(* playSound(color): replayAsync is called only on a loaded sound. *)
playSound(objs, color) == IF color \in objs THEN <<color>> ELSE <<>>

(* The first synchronous part of playSequence(): the closure's sequence,   *)
(* i = 0 (1 here), highlight on, suspended on the HIGHLIGHT_DURATION timer. *)
(* age is the time since the call began and stale tells that startGame    *)
(* has run since; nothing in the program reads either.                     *)
NewPlayback(seq, objs) ==
    [seq |-> seq, i |-> 1, lit |-> TRUE, rem |-> HIGHLIGHT_DURATION, snd |-> objs,
     age |-> 0, stale |-> FALSE]

(* startGame cancels no timer and no running playSequence(): the pending   *)
(* work stays as it is, and is work of an earlier game from then on.       *)
LeftPending(work) == [k \in DOMAIN work |-> [work[k] EXCEPT !.stale = TRUE]]

(* useEffect([sequence, gameState, playSequence]): runs when one of its    *)
(* dependencies changed, and calls playSequence() when watching.           *)
EffectPlays(changed, gs, seq) == changed /\ gs = "watching" /\ Len(seq) > 0

RemoveAt(s, k) == SubSeq(s, 1, k - 1) \o SubSeq(s, k + 1, Len(s))

Max(a, b) == IF a > b THEN a ELSE b

TypeOK ==
    /\ sequence \in Seq(COLORS)
    /\ playerSequence \in Seq(COLORS)
    /\ currentScore \in Nat
    /\ highScore \in Nat
    /\ gameState \in GameStates
    /\ activeButton \in COLORS \cup {"none"}
    /\ soundsLoaded \in BOOLEAN
    /\ soundObjects \subseteq SoundKeys
    /\ \A k \in DOMAIN playbacks :
          /\ playbacks[k].i \in 1..Len(playbacks[k].seq)
          /\ playbacks[k].rem \in 0..GapDuration
          /\ playbacks[k].age \in Nat
    /\ \A k \in DOMAIN advances : advances[k].rem \in 0..RoundAdvanceDelay
    /\ clears \subseteq 0..PressHighlight
    /\ alertOpen \in BOOLEAN
    /\ inputs \in 0..MaxInputs

----------------------------------------------------------------------------
Init ==
    /\ sequence = <<>>
    /\ playerSequence = <<>>
    /\ currentScore = 0
    /\ highScore = 0
    /\ gameState = "idle"
    /\ activeButton = "none"
    /\ soundsLoaded = FALSE
    /\ soundObjects = {}
    /\ playbacks = <<>>
    /\ advances = <<>>
    /\ clears = {}
    /\ alertOpen = FALSE
    /\ alertCall = NoAlert
    /\ soundCalls = <<>>
    /\ inputs = 0
    /\ lastOp = "mount"

(* Timers that are due run before the next user event or promise is handled. *)
TimerPending == playbacks # <<>> \/ advances # <<>> \/ clears # {}

NoTimerDue ==
    /\ \A k \in DOMAIN playbacks : playbacks[k].rem > 0
    /\ \A k \in DOMAIN advances : advances[k].rem > 0
    /\ 0 \notin clears

----------------------------------------------------------------------------
(* startGame and addNewToSequence *)

(* addNewToSequence: setSequence(prev => [...prev, nextColor]) *)
addNewToSequence(prev, nextColor) == Append(prev, nextColor)

(* Mutant of StartSequence: setSequence([]) forgotten, the new colour is    *)
(* appended to the previous game's sequence.                               *)
StartSequenceKeepsOld(nextColor) == addNewToSequence(sequence, nextColor)

(* startGame: setSequence([]) followed by addNewToSequence() *)
StartSequence(nextColor) == addNewToSequence(<<>>, nextColor)

(* startGame: setPlayerSequence([]) *)
StartPlayerSequence == <<>>

(* startGame: setCurrentScore(0) *)
StartScore == 0

(* startGame: setGameState('watching') *)
StartState == "watching"

(* Mutant of StartHighScore: startGame resets the high score as it resets  *)
(* the score.                                                              *)
StartHighScoreReset(high) == 0

(* startGame makes no call of setHighScore: the high score stays. *)
StartHighScore(high) == high

(* startGame is bound to the Start button (idle screen), to the            *)
(* "Play Again?" button (shown when gameOver) and to the "Try Again"       *)
(* button of the game-over alert.                                          *)
StartGameOffered == gameState \in {"idle", "gameOver"} \/ alertOpen

StartGame ==
    /\ StartGameOffered
    /\ NoTimerDue
    /\ lastOp' = "startGame"
    /\ \E nextColor \in InputColors :
         LET seq == StartSequence(nextColor)
             gs  == StartState
             run == EffectPlays(TRUE, gs, seq)
         IN /\ sequence' = seq
            /\ playerSequence' = StartPlayerSequence
            /\ currentScore' = StartScore
            /\ gameState' = gs
            /\ playbacks' = IF run THEN Append(LeftPending(playbacks),
                                                NewPlayback(seq, soundObjects))
                                   ELSE LeftPending(playbacks)
            /\ activeButton' = IF run THEN seq[1] ELSE activeButton
            /\ soundCalls' = IF run THEN playSound(soundObjects, seq[1]) ELSE <<>>
    /\ advances' = LeftPending(advances)
    /\ highScore' = StartHighScore(highScore)
    /\ alertOpen' = FALSE
    /\ alertCall' = NoAlert
    /\ UNCHANGED <<soundsLoaded, soundObjects, clears, inputs>>

----------------------------------------------------------------------------
(* handlePlayerInput *)

(* Mutant of InputAccepted: the guard of line 121 left out. *)
InputAcceptedAlways(gs) == TRUE

(* line 121: if (gameState !== 'playing') return *)
InputAccepted(gs) == gs = "playing"

(* line 127: [...playerSequence, color] *)
NewPlayerSequence(player, color) == Append(player, color)

(* Mutant of Mismatch: the newest input is not compared with the sequence. *)
MismatchNever(newPlayer, seq) == FALSE

(* line 131: the newest input differs from the sequence at the same index  *)
(* (an index past the end of sequence reads undefined, which differs).     *)
Mismatch(newPlayer, seq) ==
    \/ Len(newPlayer) > Len(seq)
    \/ newPlayer[Len(newPlayer)] # seq[Len(newPlayer)]

(* Mutant of SequenceComplete: the round counts as complete with the first *)
(* correct input.                                                          *)
SequenceCompleteAtFirst(newPlayer, seq) == Len(newPlayer) >= 1

(* line 142: newPlayerSequence.length === sequence.length *)
SequenceComplete(newPlayer, seq) == Len(newPlayer) = Len(seq)

(* Mutant of FailHighScore: the test of line 134 reversed, so a higher     *)
(* score never replaces the high score.                                    *)
FailHighScoreReversed(score, high) == IF score < high THEN score ELSE high

(* lines 134-136: if (currentScore > highScore) setHighScore(currentScore) *)
FailHighScore(score, high) == IF score > high THEN score ELSE high

(* Mutant of AlertArgs: the alert shows the high score of before the game, *)
(* the state value the handler's closure holds.                            *)
AlertArgsStaleHigh(score, high) == [shown |-> TRUE, score |-> score, high |-> high]

(* line 137: the score and the high score the alert shows *)
AlertArgs(score, high) ==
    [shown |-> TRUE, score |-> score, high |-> IF score > high THEN score ELSE high]

(* line 143: setCurrentScore(prev => prev + 1) *)
CompleteScore(prev) == prev + 1

(* lines 145-147: setTimeout(() => addNewToSequence(), 1000) *)
ScheduleAdvance(timers) ==
    Append(timers, [rem |-> RoundAdvanceDelay, stale |-> FALSE])

(* The model follows the app for MaxInputs accepted inputs. *)
WithinBound == inputs < MaxInputs

HandlePlayerInput(color) ==
    /\ NoTimerDue
    /\ lastOp' = "handlePlayerInput"
    /\ IF ~InputAccepted(gameState)
       THEN /\ soundCalls' = <<>>
            /\ alertCall' = NoAlert
            /\ UNCHANGED <<game, activeButton, soundsLoaded, soundObjects,
                           playbacks, advances, clears, alertOpen, inputs>>
       ELSE LET newPlayerSequence == NewPlayerSequence(playerSequence, color)
                press == playSound(soundObjects, color)
            IN /\ playerSequence' = newPlayerSequence
               /\ clears' = clears \cup {PressHighlight}
               /\ WithinBound
               /\ inputs' = inputs + 1
               /\ UNCHANGED <<sequence, soundsLoaded, soundObjects>>
               /\ IF Mismatch(newPlayerSequence, sequence)
                  THEN /\ gameState' = "gameOver"
                       /\ highScore' = FailHighScore(currentScore, highScore)
                       /\ alertCall' = AlertArgs(currentScore, highScore)
                       /\ alertOpen' = TRUE
                       /\ soundCalls' = press \o playSound(soundObjects, "ERROR")
                       /\ activeButton' = color
                       /\ UNCHANGED <<currentScore, playbacks, advances>>
                  ELSE IF SequenceComplete(newPlayerSequence, sequence)
                  THEN LET run == EffectPlays(TRUE, "watching", sequence)
                       IN /\ currentScore' = CompleteScore(currentScore)
                          /\ gameState' = "watching"
                          /\ advances' = ScheduleAdvance(advances)
                          /\ playbacks' = IF run
                               THEN Append(playbacks, NewPlayback(sequence, soundObjects))
                               ELSE playbacks
                          /\ activeButton' = IF run THEN sequence[1] ELSE color
                          /\ soundCalls' = press \o
                               (IF run THEN playSound(soundObjects, sequence[1]) ELSE <<>>)
                          /\ alertCall' = NoAlert
                          /\ UNCHANGED <<highScore, alertOpen>>
                  ELSE /\ activeButton' = color
                       /\ soundCalls' = press
                       /\ alertCall' = NoAlert
                       /\ UNCHANGED <<currentScore, highScore, gameState, playbacks,
                                      advances, alertOpen>>

PlayerInput == \E color \in InputColors : HandlePlayerInput(color)

----------------------------------------------------------------------------
(* playSequence: the continuations of a running playback *)

(* line 105: i < sequence.length - 1, on the closure's sequence *)
MoreToPlay(pb) == pb.i < Len(pb.seq)

(* Mutant of PlaybackEndState: the playback ends without opening the round *)
(* to input.                                                               *)
PlaybackEndStaysWatching == "watching"

(* line 109: setGameState('playing') *)
PlaybackEndState == "playing"

(* Mutant of PlaybackEndPlayerSequence: the buffer is not cleared when a    *)
(* playback ends.                                                          *)
PlaybackEndKeepsBuffer(player) == player

(* line 110: setPlayerSequence([]) *)
PlaybackEndPlayerSequence(player) == <<>>

(* The HIGHLIGHT_DURATION timer of a step that is not the last fires:      *)
(* setActiveButton(null), then the playback waits for the gap.             *)
HighlightEnd(k) ==
    /\ lastOp' = "highlightEnd"
    /\ playbacks[k].lit /\ playbacks[k].rem = 0
    /\ MoreToPlay(playbacks[k])
    /\ activeButton' = "none"
    /\ playbacks' = [playbacks EXCEPT ![k].lit = FALSE, ![k].rem = GapDuration]
    /\ soundCalls' = <<>>
    /\ alertCall' = NoAlert
    /\ UNCHANGED <<game, soundsLoaded, soundObjects, advances, clears, alertOpen, inputs>>

(* The gap timer fires: the loop goes to the next symbol of the closure's  *)
(* sequence, setActiveButton(color), playSound(color).                     *)
GapEnd(k) ==
    /\ lastOp' = "gapEnd"
    /\ ~playbacks[k].lit /\ playbacks[k].rem = 0
    /\ LET pb == playbacks[k]
           color == pb.seq[pb.i + 1]
       IN /\ activeButton' = color
          /\ soundCalls' = playSound(pb.snd, color)
          /\ playbacks' = [playbacks EXCEPT ![k].i = pb.i + 1, ![k].lit = TRUE,
                                            ![k].rem = HIGHLIGHT_DURATION]
    /\ alertCall' = NoAlert
    /\ UNCHANGED <<game, soundsLoaded, soundObjects, advances, clears, alertOpen, inputs>>

(* The HIGHLIGHT_DURATION timer of the last step fires:                    *)
(* setActiveButton(null), the loop ends, setGameState('playing') and       *)
(* setPlayerSequence([]).  The effect runs but gameState is not watching.  *)
PlaybackComplete(k) ==
    /\ lastOp' = "playbackComplete"
    /\ playbacks[k].lit /\ playbacks[k].rem = 0
    /\ ~MoreToPlay(playbacks[k])
    /\ activeButton' = "none"
    /\ gameState' = PlaybackEndState
    /\ playerSequence' = PlaybackEndPlayerSequence(playerSequence)
    /\ playbacks' = RemoveAt(playbacks, k)
    /\ soundCalls' = <<>>
    /\ alertCall' = NoAlert
    /\ UNCHANGED <<sequence, currentScore, highScore, soundsLoaded, soundObjects,
                   advances, clears, alertOpen, inputs>>

----------------------------------------------------------------------------
(* The other timers, sound loading and the passage of time *)

(* The 1000 ms timer of a completed round fires: addNewToSequence().       *)
(* sequence changed, so the effect runs on the new render.                 *)
RoundAdvance(k) ==
    /\ lastOp' = "roundAdvance"
    /\ advances[k].rem = 0
    /\ \E nextColor \in InputColors :
         LET seq == addNewToSequence(sequence, nextColor)
             run == EffectPlays(TRUE, gameState, seq)
         IN /\ sequence' = seq
            /\ playbacks' = IF run THEN Append(playbacks, NewPlayback(seq, soundObjects))
                                   ELSE playbacks
            /\ activeButton' = IF run THEN seq[1] ELSE activeButton
            /\ soundCalls' = IF run THEN playSound(soundObjects, seq[1]) ELSE <<>>
    /\ advances' = RemoveAt(advances, k)
    /\ alertCall' = NoAlert
    /\ UNCHANGED <<playerSequence, currentScore, highScore, gameState, soundsLoaded,
                   soundObjects, clears, alertOpen, inputs>>

(* line 125: the timer set by a button press fires: setActiveButton(null)  *)
ClearHighlight ==
    /\ lastOp' = "clearHighlight"
    /\ 0 \in clears
    /\ clears' = clears \ {0}
    /\ activeButton' = "none"
    /\ soundCalls' = <<>>
    /\ alertCall' = NoAlert
    /\ UNCHANGED <<game, soundsLoaded, soundObjects, playbacks, advances, alertOpen, inputs>>

(* loadSounds() finishes: setSoundObjects(loadedSounds), where each sound  *)
(* either loaded or failed to load.  playSound and playSequence are new    *)
(* callbacks on the next render, so the effect runs.                       *)
LoadOutcomes == {{}, SoundKeys}

LoadSounds ==
    /\ lastOp' = "loadSounds"
    /\ NoTimerDue
    /\ ~soundsLoaded
    /\ soundsLoaded' = TRUE
    /\ \E loaded \in LoadOutcomes :
         LET run == EffectPlays(TRUE, gameState, sequence)
         IN /\ soundObjects' = loaded
            /\ playbacks' = IF run THEN Append(playbacks, NewPlayback(sequence, loaded))
                                   ELSE playbacks
            /\ activeButton' = IF run THEN sequence[1] ELSE activeButton
            /\ soundCalls' = IF run THEN playSound(loaded, sequence[1]) ELSE <<>>
    /\ alertCall' = NoAlert
    /\ UNCHANGED <<game, advances, clears, alertOpen, inputs>>

(* Quantum milliseconds pass; a timer that is due fires before time moves. *)
Tick ==
    /\ lastOp' = "tick"
    /\ TimerPending
    /\ NoTimerDue
    /\ playbacks' = [k \in DOMAIN playbacks |->
                        [playbacks[k] EXCEPT !.rem = @ - Quantum, !.age = @ + Quantum]]
    /\ advances' = [k \in DOMAIN advances |->
                        [advances[k] EXCEPT !.rem = @ - Quantum]]
    /\ clears' = {t - Quantum : t \in clears}
    /\ soundCalls' = <<>>
    /\ alertCall' = NoAlert
    /\ UNCHANGED <<game, activeButton, soundsLoaded, soundObjects, alertOpen, inputs>>

----------------------------------------------------------------------------
Next ==
    \/ StartGame
    \/ PlayerInput
    \/ \E k \in DOMAIN playbacks : HighlightEnd(k)
    \/ \E k \in DOMAIN playbacks : GapEnd(k)
    \/ \E k \in DOMAIN playbacks : PlaybackComplete(k)
    \/ \E k \in DOMAIN advances : RoundAdvance(k)
    \/ ClearHighlight
    \/ LoadSounds
    \/ Tick

Spec == Init /\ [][Next]_vars

(* The event loop runs a timer callback once its delay has passed, and     *)
(* time passes: a setTimeout that is pending does fire.  Nothing makes the *)
(* user press a button, and nothing makes loadSounds() finish.             *)
TimerStep ==
    \/ \E k \in DOMAIN playbacks : HighlightEnd(k)
    \/ \E k \in DOMAIN playbacks : GapEnd(k)
    \/ \E k \in DOMAIN playbacks : PlaybackComplete(k)
    \/ \E k \in DOMAIN advances : RoundAdvance(k)
    \/ ClearHighlight

FairSpec == Init /\ [][Next]_vars /\ WF_vars(TimerStep) /\ WF_vars(Tick)

(* The app once loadSounds() has loaded every sound and before the first   *)
(* game: the state Init reaches by LoadSounds.  From there no step can     *)
(* come from sound loading.                                                *)
InitLoaded ==
    /\ sequence = <<>>
    /\ playerSequence = <<>>
    /\ currentScore = 0
    /\ highScore = 0
    /\ gameState = "idle"
    /\ activeButton = "none"
    /\ soundsLoaded = TRUE
    /\ soundObjects = SoundKeys
    /\ playbacks = <<>>
    /\ advances = <<>>
    /\ clears = {}
    /\ alertOpen = FALSE
    /\ alertCall = NoAlert
    /\ soundCalls = <<>>
    /\ inputs = 0
    /\ lastOp = "loadSounds"

NextLoaded ==
    \/ StartGame
    \/ PlayerInput
    \/ \E k \in DOMAIN playbacks : HighlightEnd(k)
    \/ \E k \in DOMAIN playbacks : GapEnd(k)
    \/ \E k \in DOMAIN playbacks : PlaybackComplete(k)
    \/ \E k \in DOMAIN advances : RoundAdvance(k)
    \/ ClearHighlight
    \/ Tick

SpecLoaded == InitLoaded /\ [][NextLoaded]_vars

(* The app with every sound loaded at the moment the player has completed  *)
(* the first round of the first game: the state SpecLoaded reaches by      *)
(* startGame, the 300 ms of the first playback and a press of the colour   *)
(* shown.  handlePlayerInput has set the score to 1, gameState to          *)
(* watching, the 1000 ms timer and the timer of the press highlight, and   *)
(* the effect has called playSequence().  The inputs that follow are       *)
(* counted from here.                                                      *)
InitRoundOne ==
    /\ \E color \in InputColors :
          /\ sequence = <<color>>
          /\ playerSequence = <<color>>
          /\ activeButton = color
          /\ playbacks = <<NewPlayback(<<color>>, SoundKeys)>>
          /\ soundCalls = <<color, color>>
    /\ currentScore = 1
    /\ highScore = 0
    /\ gameState = "watching"
    /\ soundsLoaded = TRUE
    /\ soundObjects = SoundKeys
    /\ advances = ScheduleAdvance(<<>>)
    /\ clears = {PressHighlight}
    /\ alertOpen = FALSE
    /\ alertCall = NoAlert
    /\ inputs = 0
    /\ lastOp = "handlePlayerInput"

SpecRoundOne == InitRoundOne /\ [][NextLoaded]_vars

----------------------------------------------------------------------------
(* Properties *)

(* A step that ran handlePlayerInput while gameState was 'playing'. *)
AcceptedInput == lastOp' = "handlePlayerInput" /\ gameState = "playing"

(* The colour that step was called with: the last element of the new buffer. *)
PressedColor == playerSequence'[Len(playerSequence')]

(* The step's colour differs from sequence at the index it was appended at. *)
WrongColor ==
    \/ Len(playerSequence') > Len(sequence)
    \/ PressedColor # sequence[Len(playerSequence')]

(* C1: in every reachable state the player's buffer is no longer than the  *)
(* sequence: Len(playerSequence) <= Len(sequence).                         *)
C1_BufferWithinSequence == Len(playerSequence) <= Len(sequence)

(* C1 witness: an input has just been accepted and has filled the buffer   *)
(* up to the length of the sequence (a wrong colour at the last position). *)
C1_Witness ==
    /\ lastOp = "handlePlayerInput"
    /\ alertCall.shown
    /\ Len(playerSequence) = Len(sequence)

(* C2: the input that completes a correct replay moves playing to watching *)
(* and adds exactly 1 to the score; the append that follows the pause adds *)
(* one symbol and keeps the earlier ones; and no input is accepted before  *)
(* that append has happened (no round-advance timer is still pending when  *)
(* an input is accepted).                                                  *)
C2_ReplayThenGrowBeforeInput ==
    [][/\ (AcceptedInput /\ ~WrongColor /\ Len(playerSequence') = Len(sequence))
            => (gameState' = "watching" /\ currentScore' = currentScore + 1)
       /\ lastOp' = "roundAdvance"
            => (Len(sequence') = Len(sequence) + 1
                /\ SubSeq(sequence', 1, Len(sequence)) = sequence)
       /\ AcceptedInput => advances = <<>>]_vars

(* C3: an accepted input with a wrong colour ends the game in that step:   *)
(* gameState becomes gameOver, highScore becomes max(highScore, score),    *)
(* the score and the sequence stay, and no round-advance timer is set.     *)
C3_MismatchEndsGame ==
    [][(AcceptedInput /\ WrongColor)
          => /\ gameState' = "gameOver"
             /\ highScore' = Max(highScore, currentScore)
             /\ currentScore' = currentScore
             /\ sequence' = sequence
             /\ advances' = advances]_vars

(* C3 witness: a wrong input has just ended a game with score 1, which has *)
(* become the high score.                                                  *)
C3_Witness ==
    /\ lastOp = "handlePlayerInput"
    /\ alertCall.shown
    /\ gameState = "gameOver"
    /\ currentScore = 1
    /\ highScore = 1

(* C4: handlePlayerInput called while gameState is idle, watching or       *)
(* gameOver changes nothing: the game state, the highlight and the timers  *)
(* stay, no sound is played and no alert is raised.                        *)
C4_IgnoredInputIsNoOp ==
    [][(lastOp' = "handlePlayerInput" /\ gameState # "playing")
          => /\ UNCHANGED <<game, activeButton, playbacks, advances, clears, alertOpen>>
             /\ soundCalls' = <<>>
             /\ alertCall' = NoAlert]_vars

(* C4 witness: an input has just been ignored during a playback of the     *)
(* first round (the score is 0, so the input did not complete a round).    *)
C4_Witness ==
    /\ lastOp = "handlePlayerInput"
    /\ gameState = "watching"
    /\ currentScore = 0
    /\ playbacks # <<>>

(* C5: startGame from idle or gameOver gives score 0, an empty buffer,     *)
(* gameState watching and a sequence of exactly one colour, and leaves the *)
(* high score alone.                                                       *)
C5_StartGameResets ==
    [][(lastOp' = "startGame" /\ gameState \in {"idle", "gameOver"})
          => /\ currentScore' = 0
             /\ playerSequence' = <<>>
             /\ gameState' = "watching"
             /\ Len(sequence') = 1
             /\ sequence'[1] \in COLORS
             /\ highScore' = highScore]_vars

(* C5 witness: a second game has just started after a game that ended      *)
(* with score 1.                                                           *)
C5_Witness ==
    /\ lastOp = "startGame"
    /\ highScore = 1
    /\ currentScore = 0
    /\ Len(sequence) = 1

(* C6: at most one playback is in flight, and gameState is never playing   *)
(* while a playback is still in flight.                                    *)
C6_PlaybackExclusive ==
    /\ Len(playbacks) <= 1
    /\ gameState = "playing" => playbacks = <<>>

(* C7: the playback whose completion sets gameState to playing presented   *)
(* exactly the current sequence, and the sequence does not change while    *)
(* gameState stays playing, so every element an input is checked against   *)
(* was played back in this round.                                          *)
C7_PlayingAfterFullPlayback ==
    [][/\ lastOp' = "playbackComplete"
            => \E k \in DOMAIN playbacks :
                  PlaybackComplete(k) /\ playbacks[k].seq = sequence'
       /\ (gameState = "playing" /\ gameState' = "playing")
            => sequence' = sequence]_vars

(* C8: a symbol is appended by the round-advance timer only when no        *)
(* playback is in flight and gameState is not playing.                     *)
C8_AppendOnlyAtRoundStart ==
    [][(sequence' # sequence /\ lastOp' # "startGame")
          => (playbacks = <<>> /\ gameState # "playing")]_vars

(* C9: whenever gameState is playing the sequence has one symbol more than *)
(* the score (so the score, which only grows while playing, is incremented *)
(* once per sequence length).                                              *)
C9_ScoreCountsRounds ==
    gameState = "playing" => Len(sequence) = currentScore + 1

(* C10: gameState changes only idle -> watching and gameOver -> watching   *)
(* by startGame, watching -> playing by the end of a playback, and         *)
(* playing -> watching and playing -> gameOver by handlePlayerInput.       *)
DeclaredTransitions ==
    { <<"idle", "watching", "startGame">>,
      <<"gameOver", "watching", "startGame">>,
      <<"watching", "playing", "playbackComplete">>,
      <<"playing", "watching", "handlePlayerInput">>,
      <<"playing", "gameOver", "handlePlayerInput">> }

C10_DeclaredTransitionsOnly ==
    [][gameState' # gameState
          => <<gameState, gameState', lastOp'>> \in DeclaredTransitions]_vars

(* C11: highScore never decreases in any step, startGame included, and it  *)
(* changes only in a step where an accepted input had the wrong colour     *)
(* while the score was greater than the high score.                        *)
C11_HighScoreMonotone ==
    [][/\ highScore' >= highScore
       /\ highScore' # highScore
            => (AcceptedInput /\ WrongColor /\ currentScore > highScore)]_vars

(* C11 witness: a game lost with score 1 raised the high score, and a new  *)
(* game started after it has reached playing with the high score kept.     *)
C11_Witness ==
    /\ highScore = 1
    /\ currentScore = 0
    /\ gameState = "playing"
    /\ Len(sequence) = 1

(* C12: from every state where gameState is watching and the sequence is   *)
(* not empty, gameState becomes playing later on, when timers fire (with   *)
(* or without a startGame in between); and every step that enters playing  *)
(* leaves the player's buffer empty.                                       *)
C12_WatchingLeadsToPlaying ==
    /\ (gameState = "watching" /\ sequence # <<>>) ~> (gameState = "playing")
    /\ [][(gameState # "playing" /\ gameState' = "playing")
             => playerSequence' = <<>>]_vars

(* C12 witness: the playback that followed a completed round has just      *)
(* ended: gameState went from watching to playing and the buffer, which    *)
(* held the whole sequence, is empty.                                      *)
C12_Witness ==
    /\ lastOp = "playbackComplete"
    /\ gameState = "playing"
    /\ playerSequence = <<>>
    /\ currentScore = 1
    /\ playbacks = <<>>

(* C13: at most one round-advance timer is pending, and none is pending    *)
(* while a playback is in flight.                                          *)
C13_SingleAdvanceTimer ==
    /\ Len(advances) <= 1
    /\ playbacks # <<>> => advances = <<>>

(* C14: sound events do not influence the game.  Sounds enter the model    *)
(* through soundObjects only, and no action reads soundObjects for         *)
(* anything but soundCalls; so two runs with the same user and timer       *)
(* events differ in the game only if a step of sound loading itself        *)
(* changes the game.  The claim therefore is: the step in which            *)
(* loadSounds() finishes, with whatever outcome and at whatever moment,    *)
(* leaves the game state, the highlight and the pending timers as they     *)
(* are and starts no playback.                                             *)
C14_SoundLoadInvisible ==
    [][lastOp' = "loadSounds"
          => /\ UNCHANGED <<game, activeButton, advances, clears>>
             /\ Len(playbacks') = Len(playbacks)]_vars

(* C15: Alert.alert is called in a step if and only if that step takes     *)
(* gameState into gameOver, and the call carries the score of the lost     *)
(* game and max(highScore before, score), which is the highScore the step  *)
(* stores.                                                                 *)
C15_AlertOncePerGameOver ==
    [][/\ alertCall'.shown <=> (gameState # "gameOver" /\ gameState' = "gameOver")
       /\ alertCall'.shown
            => /\ alertCall'.score = currentScore
               /\ alertCall'.high = Max(highScore, currentScore)
               /\ alertCall'.high = highScore']_vars

(* C15 witness: the alert of a game lost with score 1 and high score 0 has *)
(* just been raised; it shows 1 and 1.                                     *)
C15_Witness ==
    /\ gameState = "gameOver"
    /\ alertCall = [shown |-> TRUE, score |-> 1, high |-> 1]
    /\ highScore = 1

(* C16: the time a playback of n symbols takes according to the claim.     *)
PlaybackDuration(n) ==
    n * HIGHLIGHT_DURATION + (n - 1) * (SEQUENCE_DELAY - HIGHLIGHT_DURATION)

(* C16: every playSequence() call lights the symbols of its sequence in    *)
(* order: symbol i is lit (i - 1) * SEQUENCE_DELAY after the call began    *)
(* and cleared HIGHLIGHT_DURATION later; the next symbol follows the clear *)
(* after SEQUENCE_DELAY - HIGHLIGHT_DURATION; and the call sets gameState  *)
(* to playing at the moment it clears its last symbol, which is            *)
(* n * HIGHLIGHT_DURATION + (n - 1) * (SEQUENCE_DELAY - HIGHLIGHT_DURATION)*)
(* after it began, n being the length of its sequence.                     *)
C16_PlaybackTiming ==
    [][\A k \in DOMAIN playbacks :
          LET pb == playbacks[k]
              n  == Len(pb.seq)
          IN /\ HighlightEnd(k)
                  => /\ pb.age = PlaybackDuration(pb.i)
                     /\ pb.i < n
                     /\ activeButton' = "none"
             /\ GapEnd(k)
                  => /\ pb.age = PlaybackDuration(pb.i)
                                    + (SEQUENCE_DELAY - HIGHLIGHT_DURATION)
                     /\ activeButton' = pb.seq[pb.i + 1]
                     /\ playbacks'[k].i = pb.i + 1
             /\ PlaybackComplete(k)
                  => /\ pb.age = PlaybackDuration(n)
                     /\ pb.i = n
                     /\ activeButton' = "none"
                     /\ gameState' = "playing"]_vars

(* C16 witness: a playback of two symbols has shown both and has reached   *)
(* the end of its second highlight, 1100 ms after it began.                *)
C16_Witness ==
    \E k \in DOMAIN playbacks :
        /\ Len(playbacks[k].seq) = 2
        /\ playbacks[k].i = 2
        /\ playbacks[k].lit
        /\ playbacks[k].rem = 0
        /\ playbacks[k].age = 1100

(* C17: pending work of an earlier game does not touch the game that       *)
(* startGame began after it: a round-advance timer set before the last     *)
(* startGame, when it fires, appends nothing to the sequence and starts no *)
(* playback, and a playback begun before the last startGame, when it ends, *)
(* neither changes gameState nor clears the player's buffer.               *)
C17_NewGameIsolated ==
    [][/\ \A k \in DOMAIN advances :
             (RoundAdvance(k) /\ advances[k].stale)
                => (sequence' = sequence /\ Len(playbacks') = Len(playbacks))
       /\ \A k \in DOMAIN playbacks :
             (PlaybackComplete(k) /\ playbacks[k].stale)
                => (gameState' = gameState /\ playerSequence' = playerSequence)]_vars

(* C18: while gameState is playing the player's buffer changes only in a   *)
(* step of handlePlayerInput, and such a step appends exactly one symbol;  *)
(* no timer callback and no playback changes the buffer during a round.    *)
C18_BufferOnlyByInput ==
    [][(gameState = "playing" /\ playerSequence' # playerSequence)
          => /\ lastOp' = "handlePlayerInput"
             /\ Len(playerSequence') = Len(playerSequence) + 1
             /\ SubSeq(playerSequence', 1, Len(playerSequence)) = playerSequence]_vars

(* s is an initial part of t, element for element. *)
IsPrefix(s, t) == Len(s) <= Len(t) /\ \A i \in 1..Len(s) : s[i] = t[i]

(* C19: whenever gameState is playing the player's buffer is a prefix of   *)
(* the sequence, and the score grows only in a step after which the buffer *)
(* equals the sequence.                                                    *)
C19_BufferIsPrefix ==
    /\ [](gameState = "playing" => IsPrefix(playerSequence, sequence))
    /\ [][currentScore' > currentScore => playerSequence' = sequence']_vars

(* C19 witness: in the second round, with score 1 for the first, the       *)
(* buffer holds one accepted input and the sequence two symbols.           *)
C19_Witness ==
    /\ gameState = "playing"
    /\ currentScore = 1
    /\ Len(sequence) = 2
    /\ Len(playerSequence) = 1

(* C20: an accepted input with the right colour that leaves the buffer     *)
(* shorter than the sequence keeps gameState playing and makes the buffer  *)
(* one symbol longer; the score, the high score, the sequence, the         *)
(* round-advance timers and the playbacks stay, and no alert is raised.    *)
C20_PartialMatchKeepsPlaying ==
    [][(AcceptedInput /\ ~WrongColor /\ Len(playerSequence') < Len(sequence))
          => /\ gameState' = "playing"
             /\ Len(playerSequence') = Len(playerSequence) + 1
             /\ SubSeq(playerSequence', 1, Len(playerSequence)) = playerSequence
             /\ UNCHANGED <<currentScore, highScore, sequence, advances, playbacks>>
             /\ alertCall' = NoAlert]_vars

(* C20 witness: the first of two symbols has just been pressed correctly:  *)
(* handlePlayerInput ran, its press highlight is pending, and the round    *)
(* goes on.                                                                *)
C20_Witness ==
    /\ lastOp = "handlePlayerInput"
    /\ gameState = "playing"
    /\ Len(sequence) = 2
    /\ playerSequence = <<sequence[1]>>
    /\ PressHighlight \in clears
    /\ activeButton = sequence[1]

====
